---- MODULE Spec2Model ----
(***************************************************************************)
(* Progression & rewards engine of the Gamification Platform backend.      *)
(*                                                                         *)
(* The state is the relational store (users, grant rows, completion rows,  *)
(* experience log) plus the request handlers in flight.  A handler is a    *)
(* sequence of steps: the reads it makes before its transaction, the first *)
(* insert of its transaction, and the rest of the transaction up to the    *)
(* commit.  The store is PostgreSQL behind Prisma: statements of a         *)
(* transaction see committed rows and the transaction's own writes, an     *)
(* UPDATE of a user row holds that row until the transaction ends, and an  *)
(* INSERT that meets an uncommitted row with the same unique key waits for *)
(* the transaction that wrote it.                                          *)
(***************************************************************************)
EXTENDS Integers, Sequences, FiniteSets, TLC

\* ------------------------------------------------------------------ bounds
MaxRequests == 3      \* requests started in one behaviour

\* ----------------------------------------------------------------- catalog
Users == {1, 2}
Procs == {1, 2}
BadgeIds == {1, 2, 3, 4}
ActivityIds == {1, 2, 3, 4}
AchievementIds == {1, 2, 3, 4, 5, 6}
NoBadge == 0

\* Badge rows (admin-managed; criteria_type and criteria_value >= 1 are
\* required, experience_reward is an integer >= 0).
Badge ==
  [b \in BadgeIds |->
     CASE b = 1 -> [name |-> "First Steps", criteriaType |-> "activities", criteriaValue |-> 1,
                    experienceReward |-> 10, isActive |-> TRUE]
       [] b = 2 -> [name |-> "Profile Master", criteriaType |-> "custom", criteriaValue |-> 1,
                    experienceReward |-> 25, isActive |-> TRUE]
       [] b = 3 -> [name |-> "Novice", criteriaType |-> "experience", criteriaValue |-> 100,
                    experienceReward |-> 20, isActive |-> TRUE]
       [] b = 4 -> [name |-> "Retired", criteriaType |-> "custom", criteriaValue |-> 1,
                    experienceReward |-> 30, isActive |-> FALSE]]

\* Activity rows (experience_reward >= 0, default 0; badge_reward_id optional).
Activity ==
  [a \in ActivityIds |->
     CASE a = 1 -> [experienceReward |-> 75, badgeRewardId |-> 1,
                    isRepeatable |-> FALSE, isActive |-> TRUE]
       [] a = 2 -> [experienceReward |-> 0, badgeRewardId |-> 4,
                    isRepeatable |-> FALSE, isActive |-> TRUE]
       [] a = 3 -> [experienceReward |-> 5, badgeRewardId |-> NoBadge,
                    isRepeatable |-> TRUE, isActive |-> TRUE]
       [] a = 4 -> [experienceReward |-> 50, badgeRewardId |-> NoBadge,
                    isRepeatable |-> FALSE, isActive |-> FALSE]]

\* Achievement rows.
Achievement ==
  [h \in AchievementIds |->
     CASE h = 1 -> [criteriaType |-> "activities", criteriaValue |-> 1,
                    experienceReward |-> 100, badgeRewardId |-> NoBadge, isActive |-> TRUE]
       [] h = 2 -> [criteriaType |-> "badges", criteriaValue |-> 2,
                    experienceReward |-> 50, badgeRewardId |-> 2, isActive |-> TRUE]
       [] h = 3 -> [criteriaType |-> "registration", criteriaValue |-> 1,
                    experienceReward |-> 100, badgeRewardId |-> NoBadge, isActive |-> TRUE]
       [] h = 4 -> [criteriaType |-> "experience", criteriaValue |-> 200,
                    experienceReward |-> 15, badgeRewardId |-> NoBadge, isActive |-> TRUE]
       [] h = 5 -> [criteriaType |-> "custom", criteriaValue |-> 1,
                    experienceReward |-> 60, badgeRewardId |-> NoBadge, isActive |-> TRUE]
       [] h = 6 -> [criteriaType |-> "activities", criteriaValue |-> 1,
                    experienceReward |-> 40, badgeRewardId |-> NoBadge, isActive |-> FALSE]]

\* Level rows: the badge bound to a level number (NoBadge when none).
LevelBadgeRewardId(levelNumber) == IF levelNumber = 2 THEN 3 ELSE NoBadge

\* The Level rows the server creates at start-up, with the ids the empty
\* table gives them.
LevelThresholds == <<0, 100, 250, 500, 1000, 2000, 5000>>
SeedLevels ==
  {[id |-> n, levelNumber |-> n, experienceRequired |-> LevelThresholds[n]] :
     n \in 1..Len(LevelThresholds)}


\* Fixed XP grants of the triggers.
RegistrationXP == 25
LoginXP == 10
ProfileCompletionXP == 50

ProfileFields == {"firstName", "lastName", "avatarUrl"}

VARIABLES
  users,             \* [Users -> user row]; exists = FALSE before registration
  userBadges,        \* [Users \X BadgeIds -> number of UserBadge rows]
  userAchievements,  \* [Users \X AchievementIds -> number of UserAchievement rows]
  userActivities,    \* [Users \X ActivityIds -> number of UserActivity rows]
  experienceLog,     \* [Users -> sequence of ExperienceLog rows, oldest first]
  catalog,           \* ids of the Badge rows and Achievement rows that exist
  proc,              \* [Procs -> request handler in flight]
  tokens,            \* users a JWT was issued to (register or login answered)
  started            \* requests started so far

db == <<users, userBadges, userAchievements, userActivities, experienceLog, catalog>>
vars ==
  <<users, userBadges, userAchievements, userActivities, experienceLog, catalog, proc, tokens,
    started>>

\* The store as one value, as a transaction sees and rewrites it.
Store ==
  [users |-> users, userBadges |-> userBadges, userAchievements |-> userAchievements,
   userActivities |-> userActivities, experienceLog |-> experienceLog, catalog |-> catalog]

\* ----------------------------------------------------------- pure helpers
\* calculateLevel with each threshold belonging to the level below it.
calculateLevelInclusive(experiencePoints) ==
  IF experiencePoints <= 100 THEN 1
  ELSE IF experiencePoints <= 250 THEN 2
  ELSE IF experiencePoints <= 500 THEN 3
  ELSE IF experiencePoints <= 1000 THEN 4
  ELSE IF experiencePoints <= 2000 THEN 5
  ELSE IF experiencePoints <= 3500 THEN 6
  ELSE IF experiencePoints <= 5000 THEN 7
  ELSE IF experiencePoints <= 7000 THEN 8
  ELSE IF experiencePoints <= 10000 THEN 9
  ELSE IF experiencePoints <= 15000 THEN 10
  ELSE experiencePoints \div 1000

calculateLevel(experiencePoints) ==
  IF experiencePoints < 100 THEN 1
  ELSE IF experiencePoints < 250 THEN 2
  ELSE IF experiencePoints < 500 THEN 3
  ELSE IF experiencePoints < 1000 THEN 4
  ELSE IF experiencePoints < 2000 THEN 5
  ELSE IF experiencePoints < 3500 THEN 6
  ELSE IF experiencePoints < 5000 THEN 7
  ELSE IF experiencePoints < 7000 THEN 8
  ELSE IF experiencePoints < 10000 THEN 9
  ELSE IF experiencePoints < 15000 THEN 10
  ELSE (experiencePoints \div 1000) + 1

calculateLevelUpBonus(level) == level * 10

RECURSIVE SumChanges(_)
SumChanges(rows) ==
  IF rows = <<>> THEN 0 ELSE Head(rows).experienceChange + SumChanges(Tail(rows))

RECURSIVE SumOver(_, _)
SumOver(f, keys) ==
  IF keys = {} THEN 0
  ELSE LET k == CHOOSE x \in keys : TRUE IN f[k] + SumOver(f, keys \ {k})

\* ------------------------------------------------------ store statements
\* tx.user.update with { increment } on experiencePoints / totalBadges /
\* totalAchievements.
UserDecrement(D, u, dxp, dtb, dta) ==
  [D EXCEPT !.users[u].experiencePoints = @ - dxp,
            !.users[u].totalBadges = @ + dtb,
            !.users[u].totalAchievements = @ + dta]

UserIncrement(D, u, dxp, dtb, dta) ==
  [D EXCEPT !.users[u].experiencePoints = @ + dxp,
            !.users[u].totalBadges = @ + dtb,
            !.users[u].totalAchievements = @ + dta]

UserSetLevel(D, u, level) == [D EXCEPT !.users[u].currentLevel = level]

UserBadgeCreate(D, u, b) == [D EXCEPT !.userBadges[<<u, b>>] = @ + 1]

UserAchievementCreate(D, u, h) == [D EXCEPT !.userAchievements[<<u, h>>] = @ + 1]

UserActivityCreate(D, u, a) == [D EXCEPT !.userActivities[<<u, a>>] = @ + 1]

\* A level column left NULL: the rows the triggers create name userId,
\* activityType, activityId and experienceChange only.
NoLevel == 0

\* A write that replaces the user's latest row instead of adding one.
ExperienceLogOverwrite(D, u, type, id, change) ==
  LET row == [activityType |-> type, activityId |-> id, experienceChange |-> change,
              previousLevel |-> NoLevel, newLevel |-> NoLevel]
      rows == D.experienceLog[u]
  IN [D EXCEPT !.experienceLog[u] =
        IF rows = <<>> THEN <<row>> ELSE [rows EXCEPT ![Len(rows)] = row]]

\* tx.experienceLog.create
ExperienceLogCreate(D, u, type, id, change) ==
  [D EXCEPT !.experienceLog[u] =
     Append(@, [activityType |-> type, activityId |-> id, experienceChange |-> change,
                previousLevel |-> NoLevel, newLevel |-> NoLevel])]

\* tx.userBadge.findFirst({ where: { userId, badgeId } })
UserBadgeFindFirst(D, u, b) == D.userBadges[<<u, b>>] > 0

UserBadgeCount(D, u) == SumOver([b \in BadgeIds |-> D.userBadges[<<u, b>>]], BadgeIds)
UserAchievementCount(D, u) ==
  SumOver([h \in AchievementIds |-> D.userAchievements[<<u, h>>]], AchievementIds)
UserActivityCount(D, u) ==
  SumOver([a \in ActivityIds |-> D.userActivities[<<u, a>>]], ActivityIds)

\* ------------------------------------------------------------- cascades
\* checkAndUpdateLevel(userId, tx): the level is resolved once, from the XP
\* read at entry; the level-bound badge is granted when not owned; the
\* level-up bonus is written to the log only.
\* checkAndUpdateLevel granting the badge of the lowest level the user passes
\* instead of the badge of the level resolved.
checkAndUpdateLevelLowestPassed(D, u) ==
  LET user == D.users[u]
      newLevel == calculateLevel(user.experiencePoints)
      passed == {l \in (user.currentLevel + 1)..newLevel : LevelBadgeRewardId(l) # NoBadge}
  IN IF newLevel > user.currentLevel
     THEN LET D1 == UserSetLevel(D, u, newLevel)
              lb == IF passed = {} THEN NoBadge
                    ELSE LevelBadgeRewardId(CHOOSE l \in passed : \A m \in passed : l <= m)
              D2 == IF lb # NoBadge /\ lb \in D1.catalog.badges /\ ~UserBadgeFindFirst(D1, u, lb)
                    THEN LET reward == Badge[lb].experienceReward
                             D2a == UserBadgeCreate(D1, u, lb)
                             D2b == UserIncrement(D2a, u, reward, 1, 0)
                         IN IF reward > 0
                            THEN ExperienceLogCreate(D2b, u, "level_badge_award", lb, reward)
                            ELSE D2b
                    ELSE D1
          IN ExperienceLogCreate(D2, u, "level_up", newLevel, calculateLevelUpBonus(newLevel))
     ELSE D

checkAndUpdateLevel(D, u) ==
  LET user == D.users[u]
      newLevel == calculateLevel(user.experiencePoints)
  IN IF newLevel > user.currentLevel
     THEN LET D1 == UserSetLevel(D, u, newLevel)
              lb == LevelBadgeRewardId(newLevel)
              D2 == IF lb # NoBadge /\ lb \in D1.catalog.badges /\ ~UserBadgeFindFirst(D1, u, lb)
                    THEN LET reward == Badge[lb].experienceReward
                             D2a == UserBadgeCreate(D1, u, lb)
                             D2b == UserIncrement(D2a, u, reward, 1, 0)
                         IN IF reward > 0
                            THEN ExperienceLogCreate(D2b, u, "level_badge_award", lb, reward)
                            ELSE D2b
                    ELSE D1
              levelUpBonus == calculateLevelUpBonus(newLevel)
          IN IF levelUpBonus > 0
             THEN ExperienceLogCreate(D2, u, "level_up", newLevel, levelUpBonus)
             ELSE D2
     ELSE D

\* The criterion of one achievement on the user row read at the start of the
\* pass; any criteriaType other than the three named ones leaves isUnlocked
\* false.
isUnlockedAlways(h, snap) == TRUE

isUnlockedStrict(h, snap) ==
  LET ach == Achievement[h]
  IN CASE ach.criteriaType = "experience" -> snap.experiencePoints > ach.criteriaValue
       [] ach.criteriaType = "badges" -> snap.userBadges > ach.criteriaValue
       [] ach.criteriaType = "activities" -> snap.userActivities > ach.criteriaValue
       [] OTHER -> FALSE

isUnlocked(h, snap) ==
  LET ach == Achievement[h]
  IN CASE ach.criteriaType = "experience" -> snap.experiencePoints >= ach.criteriaValue
       [] ach.criteriaType = "badges" -> snap.userBadges >= ach.criteriaValue
       [] ach.criteriaType = "activities" -> snap.userActivities >= ach.criteriaValue
       [] OTHER -> FALSE

UnlockOneUncounted(D, u, h, snap) ==
  IF ~snap.hasAchievement[h] /\ isUnlocked(h, snap)
  THEN LET ach == Achievement[h]
           D1 == UserAchievementCreate(D, u, h)
           D2 == UserIncrement(D1, u, ach.experienceReward, 0, 1)
           br == ach.badgeRewardId
       IN IF br # NoBadge /\ br \in D2.catalog.badges /\ ~UserBadgeFindFirst(D2, u, br)
          THEN UserIncrement(UserBadgeCreate(D2, u, br), u, Badge[br].experienceReward, 0, 0)
          ELSE D2
  ELSE D

\* One iteration of the loop over the active achievements.
UnlockOne(D, u, h, snap) ==
  IF ~snap.hasAchievement[h] /\ isUnlocked(h, snap)
  THEN LET ach == Achievement[h]
           D1 == UserAchievementCreate(D, u, h)
           D2 == UserIncrement(D1, u, ach.experienceReward, 0, 1)
           br == ach.badgeRewardId
       IN IF br # NoBadge /\ br \in D2.catalog.badges /\ ~UserBadgeFindFirst(D2, u, br)
          THEN UserIncrement(UserBadgeCreate(D2, u, br), u, Badge[br].experienceReward, 1, 0)
          ELSE D2
  ELSE D

RECURSIVE UnlockLoop(_, _, _, _)
UnlockLoop(D, u, todo, snap) ==
  IF todo = <<>> THEN D
  ELSE UnlockLoop(UnlockOne(D, u, Head(todo), snap), u, Tail(todo), snap)

\* tx.achievement.findMany({ where: { isActive: true } }), in id order.
RECURSIVE ActiveAchievements(_)
ActiveAchievements(ids) ==
  IF ids = {} THEN <<>>
  ELSE LET h == CHOOSE x \in ids : \A y \in ids : x <= y
       IN (IF Achievement[h].isActive THEN <<h>> ELSE <<>>) \o ActiveAchievements(ids \ {h})

\* checkAndUnlockAchievements(userId, tx): the user row and its grant rows are
\* read once, before the loop.
checkAndUnlockAchievements(D, u) ==
  LET snap == [experiencePoints |-> D.users[u].experiencePoints,
               userBadges |-> UserBadgeCount(D, u),
               userActivities |-> UserActivityCount(D, u),
               hasAchievement |-> [h \in AchievementIds |-> D.userAchievements[<<u, h>>] > 0]]
  IN UnlockLoop(D, u, ActiveAchievements(D.catalog.achievements), snap)

\* ------------------------------------------------------- catalog lookups
\* tx.badge.findFirst({ where: { name, isActive: true } })
BadgeFindByName(D, name) ==
  LET found == {b \in D.catalog.badges : Badge[b].name = name /\ Badge[b].isActive}
  IN IF found # {} THEN CHOOSE b \in found : \A c \in found : b <= c ELSE NoBadge

\* The schema's unique keys: user_activities(userId, activityId),
\* user_badges(userId, badgeId).
UserActivityNotUnique == FALSE
UserBadgeNotUnique == FALSE
UserActivityUnique == TRUE
UserBadgeUnique == TRUE

\* prisma.userActivity.findFirst / prisma.userBadge.findFirst before the
\* transaction, on committed rows.
existingCompletionSkipped(D, u, a) == FALSE
existingCompletionUnlessRepeatable(D, u, a) ==
  ~Activity[a].isRepeatable /\ D.userActivities[<<u, a>>] > 0
existingAwardSkipped(D, u, b) == FALSE
existingCompletion(D, u, a) == D.userActivities[<<u, a>>] > 0
existingAward(D, u, b) == D.userBadges[<<u, b>>] > 0

\* ----------------------------------------------------- transaction bodies
\* Each body is the sequence of store values after its statements, in order;
\* the last one is what a commit writes.

CompleteTxAchievementsFirst(D, u, a) ==
  LET act == Activity[a]
      D1 == UserActivityCreate(D, u, a)
      D2 == UserIncrement(D1, u, act.experienceReward, 0, 0)
      D3 == IF act.experienceReward > 0
            THEN ExperienceLogCreate(D2, u, "activity_completion", a, act.experienceReward)
            ELSE D2
      D4 == checkAndUnlockAchievements(D3, u)
      D5 == checkAndUpdateLevel(D4, u)
      D6 == IF /\ act.badgeRewardId # NoBadge
               /\ act.badgeRewardId \in D5.catalog.badges
               /\ ~UserBadgeFindFirst(D5, u, act.badgeRewardId)
            THEN UserIncrement(UserBadgeCreate(D5, u, act.badgeRewardId), u, 0, 1, 0)
            ELSE D5
  IN <<D1, D2, D3, D4, D5, D6>>

\* POST /activities/:id/complete
CompleteTx(D, u, a) ==
  LET act == Activity[a]
      D1 == UserActivityCreate(D, u, a)
      D2 == UserIncrement(D1, u, act.experienceReward, 0, 0)
      D3 == IF act.experienceReward > 0
            THEN ExperienceLogCreate(D2, u, "activity_completion", a, act.experienceReward)
            ELSE D2
      D4 == checkAndUpdateLevel(D3, u)
      D5 == IF /\ act.badgeRewardId # NoBadge
               /\ act.badgeRewardId \in D4.catalog.badges
               /\ ~UserBadgeFindFirst(D4, u, act.badgeRewardId)
            THEN UserIncrement(UserBadgeCreate(D4, u, act.badgeRewardId), u, 0, 1, 0)
            ELSE D4
      D6 == checkAndUnlockAchievements(D5, u)
  IN <<D1, D2, D3, D4, D5, D6>>

\* POST /badges/award
AwardTx(D, u, b) ==
  LET reward == Badge[b].experienceReward
      D1 == UserBadgeCreate(D, u, b)
      D2 == UserIncrement(D1, u, reward, 1, 0)
      D3 == IF reward > 0 THEN ExperienceLogCreate(D2, u, "badge_award", b, reward) ELSE D2
      D4 == checkAndUpdateLevel(D3, u)
      D5 == checkAndUnlockAchievements(D4, u)
  IN <<D1, D2, D3, D4, D5>>

\* The fixed badge of a trigger, granted when it exists, is active and is not owned.
GrantNamedBadge(D, u, name) ==
  LET b == BadgeFindByName(D, name)
  IN IF b # NoBadge /\ ~UserBadgeFindFirst(D, u, b)
     THEN UserIncrement(UserBadgeCreate(D, u, b), u, Badge[b].experienceReward, 1, 0)
     ELSE D

\* POST /auth/register
RegisterTx(D, u) ==
  LET D1 == UserIncrement(D, u, RegistrationXP, 0, 0)
      D2 == GrantNamedBadge(D1, u, "First Steps")
      D3 == checkAndUpdateLevel(D2, u)
      D4 == checkAndUnlockAchievements(D3, u)
  IN <<D1, D2, D3, D4>>

\* POST /auth/login
LoginTx(D, u) ==
  LET D1 == UserIncrement(D, u, LoginXP, 0, 0)
      D2 == checkAndUnlockAchievements(D1, u)
  IN <<D1, D2>>

\* PUT /auth/profile, once the profile is complete
ProfileTx(D, u) ==
  LET D1 == UserIncrement(D, u, ProfileCompletionXP, 0, 0)
      D2 == GrantNamedBadge(D1, u, "Profile Master")
      D3 == checkAndUnlockAchievements(D2, u)
  IN <<D1, D2, D3>>

TxStages(kind, D, u, arg) ==
  CASE kind = "complete" -> CompleteTx(D, u, arg)
    [] kind = "award" -> AwardTx(D, u, arg)
    [] kind = "register" -> RegisterTx(D, u)
    [] kind = "login" -> LoginTx(D, u)
    [] kind = "profile" -> ProfileTx(D, u)

TxResult(kind, D, u, arg) ==
  LET st == TxStages(kind, D, u, arg) IN st[Len(st)]

RollbackKeepsPartial(before, partial) == partial

\* prisma.$transaction: a callback that throws leaves the store as it was.
Rollback(before, partial) == before

\* ------------------------------------------------------------- handlers
Idle ==
  [kind |-> "none", pc |-> "idle", user |-> 0, arg |-> 0, badge |-> 0, level |-> 0,
   events |-> {}, board |-> <<>>, caller |-> 0, res |-> "none"]

NewUser(fields) ==
  [exists |-> TRUE, experiencePoints |-> 0, currentLevel |-> 1, totalBadges |-> 0,
   totalAchievements |-> 0, profile |-> fields]

NoUser ==
  [exists |-> FALSE, experiencePoints |-> 0, currentLevel |-> 1, totalBadges |-> 0,
   totalAchievements |-> 0, profile |-> {}]

\* The profile fields a request body sets, by input number.
RegisterInputs == <<{}, {"firstName", "lastName"}>>
ProfileInputs == <<{"firstName"}, {"avatarUrl"}>>

InitStore ==
  [users |-> [u \in Users |-> IF u = 1 THEN NewUser({"firstName", "lastName"}) ELSE NoUser],
   userBadges |-> [k \in Users \X BadgeIds |-> 0],
   userAchievements |-> [k \in Users \X AchievementIds |-> 0],
   userActivities |-> [k \in Users \X ActivityIds |-> 0],
   experienceLog |-> [u \in Users |-> <<>>],
   catalog |-> [badges |-> BadgeIds, achievements |-> AchievementIds,
               levels |-> SeedLevels, nextLevelId |-> Len(LevelThresholds) + 1]]

Init ==
  /\ users = InitStore.users
  /\ userBadges = InitStore.userBadges
  /\ userAchievements = InitStore.userAchievements
  /\ userActivities = InitStore.userActivities
  /\ experienceLog = InitStore.experienceLog
  /\ catalog = InitStore.catalog
  /\ proc = [p \in Procs |-> Idle]
  /\ tokens = {}
  /\ started = 0

Commit(D) ==
  \E S \in {D} :
    /\ users' = S.users
    /\ userBadges' = S.userBadges
    /\ userAchievements' = S.userAchievements
    /\ userActivities' = S.userActivities
    /\ experienceLog' = S.experienceLog
    /\ catalog' = S.catalog

CanStart(p) == proc[p].pc = "idle" /\ started < MaxRequests

\* req.user.id of the request p is handling, where the handler's middleware
\* was followed (NoCaller where it was not).
NoCaller == 0
Caller(p) == IF proc[p].pc = "idle" THEN NoCaller ELSE proc[p].caller

Respond(p, kind, u, arg, res) ==
  proc' = [proc EXCEPT ![p] = [kind |-> kind, pc |-> "idle", user |-> u, arg |-> arg,
                               badge |-> NoBadge, level |-> 0, events |-> {}, board |-> <<>>,
                               caller |-> Caller(p), res |-> res]]

\* The answer of a handler whose transaction committed, with the events it
\* sent to the user's room.
RespondEmitting(p, kind, u, arg, res, events) ==
  proc' = [proc EXCEPT ![p] = [kind |-> kind, pc |-> "idle", user |-> u, arg |-> arg,
                               badge |-> NoBadge, level |-> 0, events |-> events,
                               board |-> <<>>, caller |-> Caller(p), res |-> res]]

\* The handler goes on with what it read so far: for a completion, the
\* activity row and the badge it names (an optional reference reads as null
\* once the badge row is deleted); for a login, the user row of
\* User.findByEmail with its currentLevel.
Goto(p, kind, u, arg, pc) ==
  LET badge == IF kind = "complete" /\ Activity[arg].badgeRewardId \in catalog.badges
               THEN Activity[arg].badgeRewardId ELSE NoBadge
      level == IF kind = "login" THEN users[u].currentLevel ELSE 0
  IN proc' = [proc EXCEPT ![p] = [kind |-> kind, pc |-> pc, user |-> u, arg |-> arg,
                                  badge |-> badge, level |-> level, events |-> {},
                                  board |-> <<>>, caller |-> Caller(p),
                                  res |-> "none"]]

\* The uncommitted first insert of a transaction that waits for the user row.
PendingActivity(q, u, a) ==
  proc[q].kind = "complete" /\ proc[q].pc = "body" /\ proc[q].user = u /\ proc[q].arg = a
PendingBadgeOfAnyUser(q, u, b) ==
  proc[q].kind = "award" /\ proc[q].pc = "body" /\ proc[q].arg = b
PendingBadge(q, u, b) ==
  proc[q].kind = "award" /\ proc[q].pc = "body" /\ proc[q].user = u /\ proc[q].arg = b

\* The lookups of POST /activities/:id/complete before its transaction: the
\* activity of the path, the user of the body's user_id, the completion row.
CompleteLookups(p, u, a) ==
  IF ~Activity[a].isActive \/ ~users[u].exists
  THEN Respond(p, "complete", u, a, "404")
  ELSE IF existingCompletion(Store, u, a)
       THEN Respond(p, "complete", u, a, "200 alreadyCompleted completedAt")
       ELSE Goto(p, "complete", u, a, "insert")

\* POST /activities/:id/complete, up to the transaction.
CompleteCheck(p, u, a) ==
  /\ CanStart(p)
  /\ started' = started + 1
  /\ UNCHANGED <<db, tokens>>
  /\ CompleteLookups(p, u, a)

\* tx.userActivity.create, the first statement of the transaction.
CompleteInsert(p) ==
  /\ proc[p].kind = "complete" /\ proc[p].pc = "insert"
  /\ UNCHANGED <<db, tokens, started>>
  /\ LET u == proc[p].user
         a == proc[p].arg
     IN IF UserActivityUnique /\ userActivities[<<u, a>>] > 0
        THEN \* P2002 on user_activities_userId_activityId_key, caught
             Respond(p, "complete", u, a, "200 alreadyCompleted")
        ELSE /\ ~(UserActivityUnique /\ \E q \in Procs \ {p} : PendingActivity(q, u, a))
             /\ proc' = [proc EXCEPT ![p].pc = "body"]

AwardCheckWithoutLookup(p, u, b) ==
  /\ CanStart(p)
  /\ started' = started + 1
  /\ UNCHANGED <<db, tokens>>
  /\ IF existingAward(Store, u, b)
     THEN Respond(p, "award", u, b, "409")
     ELSE Goto(p, "award", u, b, "insert")

\* POST /badges/award, up to the transaction.
AwardCheck(p, u, b) ==
  /\ CanStart(p)
  /\ started' = started + 1
  /\ UNCHANGED <<db, tokens>>
  /\ IF b \notin catalog.badges \/ ~Badge[b].isActive \/ ~users[u].exists
     THEN Respond(p, "award", u, b, "404")
     ELSE IF existingAward(Store, u, b)
          THEN Respond(p, "award", u, b, "409")
          ELSE Goto(p, "award", u, b, "insert")

\* tx.userBadge.create, the first statement of the transaction.
AwardInsert(p) ==
  /\ proc[p].kind = "award" /\ proc[p].pc = "insert"
  /\ UNCHANGED <<db, tokens, started>>
  /\ LET u == proc[p].user
         b == proc[p].arg
     IN IF \/ UserBadgeUnique /\ userBadges[<<u, b>>] > 0
           \/ b \notin catalog.badges
        THEN \* P2002 (or the badge row is gone), caught by the handler's catch-all
             Respond(p, "award", u, b, "500")
        ELSE /\ ~(UserBadgeUnique /\ \E q \in Procs \ {p} : PendingBadge(q, u, b))
             /\ Goto(p, "award", u, b, "body")

\* POST /auth/register: User.create runs before the transaction.
RegisterCreate(p, u, i) ==
  /\ CanStart(p)
  /\ started' = started + 1
  /\ UNCHANGED <<userBadges, userAchievements, userActivities, experienceLog, catalog, tokens>>
  /\ IF users[u].exists
     THEN /\ Respond(p, "register", u, i, "409")
          /\ UNCHANGED users
     ELSE /\ users' = [users EXCEPT ![u] = NewUser(RegisterInputs[i])]
          /\ Goto(p, "register", u, i, "body")

\* POST /auth/login, up to the transaction.
LoginStart(p, u) ==
  /\ CanStart(p)
  /\ started' = started + 1
  /\ UNCHANGED <<db, tokens>>
  /\ IF ~users[u].exists
     THEN Respond(p, "login", u, 0, "401")
     ELSE Goto(p, "login", u, 0, "body")

\* PUT /auth/profile, behind protect: the caller's token names the user. The
\* profile fields are written before the transaction, which runs when all
\* three fields are set.
ProfileUpdate(p, u, i) ==
  /\ CanStart(p)
  /\ started' = started + 1
  /\ UNCHANGED <<userBadges, userAchievements, userActivities, experienceLog, catalog, tokens>>
  /\ IF u \notin tokens \/ ~users[u].exists
     THEN /\ Respond(p, "profile", u, i, "401")
          /\ UNCHANGED users
     ELSE /\ users' = [users EXCEPT ![u].profile = @ \cup ProfileInputs[i]]
          /\ IF users[u].profile \cup ProfileInputs[i] = ProfileFields
             THEN Goto(p, "profile", u, i, "body")
             ELSE Respond(p, "profile", u, i, "200")

\* Badge rows the rest of p's transaction inserts.
WantedBadges(p) ==
  LET u == proc[p].user
      after == TxResult(proc[p].kind, Store, u, proc[p].arg)
  IN {b \in BadgeIds : after.userBadges[<<u, b>>] > userBadges[<<u, b>>]}

\* Transactions p waits for and that wait for p: they hold an uncommitted
\* UserBadge row p's transaction inserts too, and need the user row p holds.
Conflicts(p) ==
  IF UserBadgeUnique
  THEN {q \in Procs \ {p} : \E b \in WantedBadges(p) : PendingBadge(q, proc[p].user, b)}
  ELSE {}

SuccessResponse(kind) ==
  CASE kind = "complete" -> "200 completed"
    [] kind = "award" -> "200 awarded"
    [] kind = "register" -> "201"
    [] OTHER -> "200"

\* The events a handler emits after its transaction, from the rows it reads
\* back once the transaction has committed (D) and the rows it read before.
HeldAchievements(D, u) == {h \in AchievementIds : D.userAchievements[<<u, h>>] > 0}

\* register: xp-gained; badge-awarded for "First Steps" when the user read
\* back does not have it; level-up above level 1; achievement-unlocked for
\* every UserAchievement row of the user read back.
RegisterEvents(D, u) ==
  LET b == BadgeFindByName(D, "First Steps")
  IN {<<"xp-gained", RegistrationXP>>}
       \cup (IF b # NoBadge /\ ~UserBadgeFindFirst(D, u, b) THEN {<<"badge-awarded", b>>} ELSE {})
       \cup (IF D.users[u].currentLevel > 1 THEN {<<"level-up", D.users[u].currentLevel>>} ELSE {})
       \cup {<<"achievement-unlocked", h>> : h \in HeldAchievements(D, u)}

\* login: the user row of findByEmail has no userAchievements, so the filter
\* for new achievements keeps every row of the user read back.
LoginEvents(D, u, seenLevel) ==
  {<<"xp-gained", LoginXP>>}
    \cup (IF D.users[u].currentLevel > seenLevel
          THEN {<<"level-up", D.users[u].currentLevel>>} ELSE {})
    \cup {<<"achievement-unlocked", h>> : h \in HeldAchievements(D, u)}

\* profile: xp-gained; badge-awarded for "Profile Master" when the user does
\* not have it after the transaction.
ProfileEvents(D, u) ==
  LET b == BadgeFindByName(D, "Profile Master")
  IN {<<"xp-gained", ProfileCompletionXP>>}
       \cup (IF b # NoBadge /\ ~UserBadgeFindFirst(D, u, b) THEN {<<"badge-awarded", b>>} ELSE {})

Events(p, D) ==
  LET u == proc[p].user
  IN CASE proc[p].kind = "complete" -> {<<"activity-completed", proc[p].arg>>}
       [] proc[p].kind = "award" -> {<<"badge-awarded", proc[p].arg>>}
       [] proc[p].kind = "register" -> RegisterEvents(D, u)
       [] proc[p].kind = "login" -> LoginEvents(D, u, proc[p].level)
       [] proc[p].kind = "profile" -> ProfileEvents(D, u)

\* The completion handler inserts the UserBadge row of the badge its activity
\* row named before the transaction; the insert fails when that Badge row
\* has been deleted since.
TxFails(p) ==
  /\ proc[p].kind = "complete"
  /\ proc[p].badge # NoBadge
  /\ proc[p].badge \notin catalog.badges
  /\ ~UserBadgeFindFirst(TxStages("complete", Store, proc[p].user, proc[p].arg)[4],
                         proc[p].user, proc[p].badge)

\* The rest of the transaction, from the UPDATE of the user row to the commit.
TxCommit(p) ==
  /\ proc[p].pc = "body"
  /\ Conflicts(p) = {}
  /\ ~TxFails(p)
  /\ Commit(TxResult(proc[p].kind, Store, proc[p].user, proc[p].arg))
  /\ RespondEmitting(p, proc[p].kind, proc[p].user, proc[p].arg, SuccessResponse(proc[p].kind),
                     Events(p, Store'))
  /\ tokens' = IF proc[p].kind \in {"register", "login"} THEN tokens \cup {proc[p].user} ELSE tokens
  /\ UNCHANGED started

\* The store ends one transaction of a lock cycle; its handler answers 500.
DeadlockAbort(p, v) ==
  /\ proc[p].pc = "body"
  /\ Conflicts(p) # {}
  /\ v \in {p} \cup Conflicts(p)
  /\ Commit(Rollback(Store, TxStages(proc[v].kind, Store, proc[v].user, proc[v].arg)[1]))
  /\ Respond(v, proc[v].kind, proc[v].user, proc[v].arg, "500")
  /\ UNCHANGED <<tokens, started>>

\* A statement of the transaction fails (connection lost, timeout) after
\* statement k; the handler answers 500.
StorageFailure(p) ==
  /\ proc[p].pc = "body"
  /\ \E st \in {TxStages(proc[p].kind, Store, proc[p].user, proc[p].arg)} :
       \E k \in 1..Len(st) : Commit(Rollback(Store, st[k]))
  /\ Respond(p, proc[p].kind, proc[p].user, proc[p].arg, "500")
  /\ UNCHANGED <<tokens, started>>

\* The transaction's insert of a UserBadge row names a deleted badge; the
\* handler answers 500.
ForeignKeyAbort(p) ==
  /\ proc[p].pc = "body"
  /\ TxFails(p)
  /\ Commit(Rollback(Store, TxStages(proc[p].kind, Store, proc[p].user, proc[p].arg)[4]))
  /\ Respond(p, proc[p].kind, proc[p].user, proc[p].arg, "500")
  /\ UNCHANGED <<tokens, started>>

\* DELETE /badges/:id (admin): the Badge row is deleted and the store deletes
\* the UserBadge rows of it with it; the delete waits for a transaction that
\* holds an uncommitted UserBadge row of the badge.
DeleteBadge(b) ==
  /\ started < MaxRequests
  /\ started' = started + 1
  /\ UNCHANGED <<users, userAchievements, userActivities, experienceLog, proc, tokens>>
  /\ IF b \notin catalog.badges
     THEN UNCHANGED <<userBadges, catalog>>
     ELSE /\ ~\E q \in Procs, u \in Users : PendingBadge(q, u, b)
          /\ catalog' = [catalog EXCEPT !.badges = @ \ {b}]
          /\ userBadges' = [k \in Users \X BadgeIds |-> IF k[2] = b THEN 0 ELSE userBadges[k]]

\* DELETE /achievements/:id (admin): the Achievement row is deleted and the
\* store deletes the UserAchievement rows of it with it.
DeleteAchievement(h) ==
  /\ started < MaxRequests
  /\ started' = started + 1
  /\ UNCHANGED <<users, userBadges, userActivities, experienceLog, proc, tokens>>
  /\ IF h \notin catalog.achievements
     THEN UNCHANGED <<userAchievements, catalog>>
     ELSE /\ catalog' = [catalog EXCEPT !.achievements = @ \ {h}]
          /\ userAchievements' =
               [k \in Users \X AchievementIds |-> IF k[2] = h THEN 0 ELSE userAchievements[k]]

Next ==
  \/ \E p \in Procs, u \in Users, a \in ActivityIds : CompleteCheck(p, u, a)
  \/ \E p \in Procs : CompleteInsert(p)
  \/ \E p \in Procs, u \in Users, b \in BadgeIds : AwardCheck(p, u, b)
  \/ \E p \in Procs : AwardInsert(p)
  \/ \E p \in Procs, u \in Users, i \in DOMAIN RegisterInputs : RegisterCreate(p, u, i)
  \/ \E p \in Procs, u \in Users : LoginStart(p, u)
  \/ \E p \in Procs, u \in Users, i \in DOMAIN ProfileInputs : ProfileUpdate(p, u, i)
  \/ \E p \in Procs : TxCommit(p)
  \/ \E p \in Procs, v \in Procs : DeadlockAbort(p, v)
  \/ \E p \in Procs : StorageFailure(p)

Spec == Init /\ [][Next]_vars

\* The same handlers on a store whose statements never fail by themselves.
NextNoFault ==
  \/ \E p \in Procs, u \in Users, a \in ActivityIds : CompleteCheck(p, u, a)
  \/ \E p \in Procs : CompleteInsert(p)
  \/ \E p \in Procs, u \in Users, b \in BadgeIds : AwardCheck(p, u, b)
  \/ \E p \in Procs : AwardInsert(p)
  \/ \E p \in Procs, u \in Users, i \in DOMAIN RegisterInputs : RegisterCreate(p, u, i)
  \/ \E p \in Procs, u \in Users : LoginStart(p, u)
  \/ \E p \in Procs, u \in Users, i \in DOMAIN ProfileInputs : ProfileUpdate(p, u, i)
  \/ \E p \in Procs : TxCommit(p)
  \/ \E p \in Procs, v \in Procs : DeadlockAbort(p, v)

SpecNoFault == Init /\ [][NextNoFault]_vars

\* -------------------------------------------------- the activity leaderboard
\* The values of the limit query parameter.
Limits == {1, 2}

\* prisma.user.findMany({ where: { isActive: true }, orderBy:
\* { experiencePoints: 'desc' } }): the orders of the users the store may
\* return, rows of equal experiencePoints in either order.
Rankings(D) ==
  LET rows == {u \in Users : D.users[u].exists}
      n == Cardinality(rows)
  IN {r \in [1..n -> rows] :
        /\ \A i, j \in 1..n : i # j => r[i] # r[j]
        /\ \A i, j \in 1..n :
             i < j => D.users[r[i]].experiencePoints >= D.users[r[j]].experiencePoints}

\* The first `limit` rows mapped to leaderboard entries.
Leaderboard(D, ranking, limit) ==
  LET n == IF limit < Len(ranking) THEN limit ELSE Len(ranking)
  IN [i \in 1..n |->
        [id |-> ranking[i],
         experience_points |-> D.users[ranking[i]].experiencePoints,
         activities_completed |-> UserActivityCount(D, ranking[i]),
         rank |-> i]]

\* GET /levels/leaderboard/activity?limit=
ActivityLeaderboard(p, limit) ==
  /\ CanStart(p)
  /\ started' = started + 1
  /\ UNCHANGED <<db, tokens>>
  /\ \E ranking \in Rankings(Store) :
       proc' = [proc EXCEPT ![p] = [kind |-> "leaderboard", pc |-> "idle", user |-> 0,
                                    arg |-> limit, badge |-> NoBadge, level |-> 0,
                                    events |-> {},
                                    board |-> Leaderboard(Store, ranking, limit),
                                    caller |-> NoCaller,
                                    res |-> "200"]]

\* The store once user 2 has registered with both names, at the side of
\* user 1: 25 XP of the registration and 10 XP of "First Steps".
RegisteredUser ==
  [NewUser(RegisterInputs[2]) EXCEPT !.experiencePoints = RegistrationXP + Badge[1].experienceReward,
                                     !.totalBadges = 1]

InitBoard ==
  /\ users = [InitStore.users EXCEPT ![2] = RegisteredUser]
  /\ userBadges = [InitStore.userBadges EXCEPT ![<<2, 1>>] = 1]
  /\ userAchievements = InitStore.userAchievements
  /\ userActivities = InitStore.userActivities
  /\ experienceLog = InitStore.experienceLog
  /\ catalog = InitStore.catalog
  /\ proc = [p \in Procs |-> Idle]
  /\ tokens = {2}
  /\ started = 0

NextBoard ==
  \/ \E p \in Procs, u \in Users, a \in ActivityIds : CompleteCheck(p, u, a)
  \/ \E p \in Procs : CompleteInsert(p)
  \/ \E p \in Procs, u \in Users, b \in BadgeIds : AwardCheck(p, u, b)
  \/ \E p \in Procs : AwardInsert(p)
  \/ \E p \in Procs, u \in Users, i \in DOMAIN RegisterInputs : RegisterCreate(p, u, i)
  \/ \E p \in Procs, u \in Users : LoginStart(p, u)
  \/ \E p \in Procs, u \in Users, i \in DOMAIN ProfileInputs : ProfileUpdate(p, u, i)
  \/ \E p \in Procs : TxCommit(p)
  \/ \E p \in Procs, v \in Procs : DeadlockAbort(p, v)
  \/ \E p \in Procs, limit \in Limits : ActivityLeaderboard(p, limit)

SpecBoard == InitBoard /\ [][NextBoard]_vars

\* ------------------------------------------- a user about to pass a level
\* The store after two requests for user 1: the admin awarded badge 1, then
\* the user completed activity 2.  The level check of the completion ran
\* before its achievement pass, so the user is at level 1 with the
\* achievements' XP.
RaisedUser ==
  [NewUser(RegisterInputs[2]) EXCEPT
     !.experiencePoints = Badge[1].experienceReward + Achievement[1].experienceReward
                          + Achievement[2].experienceReward + Badge[2].experienceReward,
     !.totalBadges = 3, !.totalAchievements = 2]

InitJump ==
  /\ users = [InitStore.users EXCEPT ![1] = RaisedUser]
  /\ userBadges = [k \in Users \X BadgeIds |-> IF k \in {<<1, 1>>, <<1, 2>>, <<1, 4>>} THEN 1 ELSE 0]
  /\ userAchievements =
       [k \in Users \X AchievementIds |-> IF k \in {<<1, 1>>, <<1, 2>>} THEN 1 ELSE 0]
  /\ userActivities = [InitStore.userActivities EXCEPT ![<<1, 2>>] = 1]
  /\ experienceLog = [InitStore.experienceLog EXCEPT
                        ![1] = <<[activityType |-> "badge_award", activityId |-> 1,
                                  experienceChange |-> Badge[1].experienceReward,
                                  previousLevel |-> NoLevel, newLevel |-> NoLevel]>>]
  /\ catalog = InitStore.catalog
  /\ proc = [p \in Procs |-> Idle]
  /\ tokens = {}
  /\ started = 0

SpecJump == InitJump /\ [][NextNoFault]_vars

\* ------------------------------------------- the caller of a completion
\* protect, in front of POST /activities/:id/complete: the bearer token names
\* the caller, who must be a user; the body's user_id names the user the
\* completion is for.
Protect(p, c, u, a) ==
  /\ CanStart(p)
  /\ started' = started + 1
  /\ UNCHANGED <<db, tokens>>
  /\ IF c \notin tokens \/ ~users[c].exists
     THEN Respond(p, "complete", u, a, "401")
     ELSE proc' = [proc EXCEPT ![p] = [kind |-> "complete", pc |-> "authorized", user |-> u,
                                       arg |-> a, badge |-> NoBadge, level |-> 0,
                                       events |-> {}, board |-> <<>>, caller |-> c,
                                       res |-> "none"]]

\* The handler behind protect, up to the transaction.
CompleteAuthorized(p) ==
  /\ proc[p].kind = "complete" /\ proc[p].pc = "authorized"
  /\ UNCHANGED <<db, tokens, started>>
  /\ CompleteLookups(p, proc[p].user, proc[p].arg)

NextCaller ==
  \/ \E p \in Procs, c \in Users, u \in Users, a \in ActivityIds : Protect(p, c, u, a)
  \/ \E p \in Procs : CompleteAuthorized(p)
  \/ \E p \in Procs : CompleteInsert(p)
  \/ \E p \in Procs, u \in Users, i \in DOMAIN RegisterInputs : RegisterCreate(p, u, i)
  \/ \E p \in Procs, u \in Users : LoginStart(p, u)
  \/ \E p \in Procs : TxCommit(p)

SpecCaller == Init /\ [][NextCaller]_vars

\* The handlers together with the admin's catalog deletions.
NextAdmin ==
  \/ \E p \in Procs, u \in Users, a \in ActivityIds : CompleteCheck(p, u, a)
  \/ \E p \in Procs : CompleteInsert(p)
  \/ \E p \in Procs, u \in Users, b \in BadgeIds : AwardCheck(p, u, b)
  \/ \E p \in Procs : AwardInsert(p)
  \/ \E p \in Procs, u \in Users, i \in DOMAIN RegisterInputs : RegisterCreate(p, u, i)
  \/ \E p \in Procs, u \in Users : LoginStart(p, u)
  \/ \E p \in Procs, u \in Users, i \in DOMAIN ProfileInputs : ProfileUpdate(p, u, i)
  \/ \E p \in Procs : TxCommit(p)
  \/ \E p \in Procs, v \in Procs : DeadlockAbort(p, v)
  \/ \E p \in Procs : ForeignKeyAbort(p)
  \/ \E b \in BadgeIds : DeleteBadge(b)
  \/ \E h \in AchievementIds : DeleteAchievement(h)

SpecAdmin == Init /\ [][NextAdmin]_vars

\* ------------------------------------------------------ the level catalog
\* Inputs of the admin's level requests: a level number that is seeded and
\* one that is not, a row id that is seeded and one a create may give.
LevelNumberInputs == {7, 8}
LevelIdInputs == {7, 8}
ThresholdInputs == {5000, 7000}

\* Level.levelNumber is a unique key of the table.
LevelNumberNotUnique == FALSE
LevelNumberUnique == TRUE

LevelsNumbered(n) == {l \in catalog.levels : l.levelNumber = n}
LevelsWithId(id) == {l \in catalog.levels : l.id = id}

\* POST /levels (admin), up to the insert: the lookup of the level number.
LevelCreateCheck(p, n, xp) ==
  /\ CanStart(p)
  /\ started' = started + 1
  /\ UNCHANGED <<db, tokens>>
  /\ IF LevelsNumbered(n) # {}
     THEN Respond(p, "level-create", 0, <<n, xp>>, "409")
     ELSE Goto(p, "level-create", 0, <<n, xp>>, "insert")

\* prisma.level.create: an insert that meets the unique key throws, and the
\* handler's catch answers 500.
LevelCreateInsert(p) ==
  /\ proc[p].kind = "level-create" /\ proc[p].pc = "insert"
  /\ UNCHANGED <<users, userBadges, userAchievements, userActivities, experienceLog,
                 tokens, started>>
  /\ IF LevelNumberUnique /\ LevelsNumbered(proc[p].arg[1]) # {}
     THEN /\ UNCHANGED catalog
          /\ Respond(p, "level-create", 0, proc[p].arg, "500")
     ELSE /\ catalog' = [catalog EXCEPT
                           !.levels = @ \cup {[id |-> catalog.nextLevelId,
                                               levelNumber |-> proc[p].arg[1],
                                               experienceRequired |-> proc[p].arg[2]]},
                           !.nextLevelId = @ + 1]
          /\ Respond(p, "level-create", 0, proc[p].arg, "201")

\* PUT /levels/:id (admin), up to the update: the lookup of the row.
LevelUpdateCheck(p, id, xp) ==
  /\ CanStart(p)
  /\ started' = started + 1
  /\ UNCHANGED <<db, tokens>>
  /\ IF LevelsWithId(id) = {}
     THEN Respond(p, "level-update", 0, <<id, xp>>, "404")
     ELSE Goto(p, "level-update", 0, <<id, xp>>, "update")

\* prisma.level.update: the request body has no level number, the row keeps
\* its own; an update of a row deleted meanwhile throws.
LevelUpdateWrite(p) ==
  /\ proc[p].kind = "level-update" /\ proc[p].pc = "update"
  /\ UNCHANGED <<users, userBadges, userAchievements, userActivities, experienceLog,
                 tokens, started>>
  /\ IF LevelsWithId(proc[p].arg[1]) = {}
     THEN /\ UNCHANGED catalog
          /\ Respond(p, "level-update", 0, proc[p].arg, "500")
     ELSE /\ catalog' = [catalog EXCEPT
                           !.levels = {IF l.id = proc[p].arg[1]
                                       THEN [l EXCEPT !.experienceRequired = proc[p].arg[2]]
                                       ELSE l : l \in @}]
          /\ Respond(p, "level-update", 0, proc[p].arg, "200")

\* DELETE /levels/:id (admin), up to the delete: the lookup of the row.
LevelDeleteCheck(p, id) ==
  /\ CanStart(p)
  /\ started' = started + 1
  /\ UNCHANGED <<db, tokens>>
  /\ IF LevelsWithId(id) = {}
     THEN Respond(p, "level-delete", 0, id, "404")
     ELSE Goto(p, "level-delete", 0, id, "delete")

\* prisma.level.delete: a delete of a row deleted meanwhile throws.
LevelDeleteWrite(p) ==
  /\ proc[p].kind = "level-delete" /\ proc[p].pc = "delete"
  /\ UNCHANGED <<users, userBadges, userAchievements, userActivities, experienceLog,
                 tokens, started>>
  /\ IF LevelsWithId(proc[p].arg) = {}
     THEN /\ UNCHANGED catalog
          /\ Respond(p, "level-delete", 0, proc[p].arg, "500")
     ELSE /\ catalog' = [catalog EXCEPT !.levels = @ \ LevelsWithId(proc[p].arg)]
          /\ Respond(p, "level-delete", 0, proc[p].arg, "200")

NextLevelCatalog ==
  \/ \E p \in Procs, n \in LevelNumberInputs, xp \in ThresholdInputs : LevelCreateCheck(p, n, xp)
  \/ \E p \in Procs : LevelCreateInsert(p)
  \/ \E p \in Procs, id \in LevelIdInputs, xp \in ThresholdInputs : LevelUpdateCheck(p, id, xp)
  \/ \E p \in Procs : LevelUpdateWrite(p)
  \/ \E p \in Procs, id \in LevelIdInputs : LevelDeleteCheck(p, id)
  \/ \E p \in Procs : LevelDeleteWrite(p)

SpecLevelCatalog == Init /\ [][NextLevelCatalog]_vars

\* ----------------------------------------------------- the level resolver
\* The XP values the level resolver is applied to.
LevelInputs == {0, 99, 100, 249, 250, 999, 1000, 9999, 10000, 15500}

\* A level resolution in flight: the XP read from the user row, and the level
\* once calculateLevel has returned.
LevelRequest(xp) ==
  [kind |-> "level", pc |-> "resolve", user |-> 0, arg |-> xp, badge |-> 0, level |-> 0,
   events |-> {}, board |-> <<>>, caller |-> 0, res |-> 0]

InitLevel ==
  /\ users = InitStore.users
  /\ userBadges = InitStore.userBadges
  /\ userAchievements = InitStore.userAchievements
  /\ userActivities = InitStore.userActivities
  /\ experienceLog = InitStore.experienceLog
  /\ catalog = InitStore.catalog
  /\ proc \in [Procs -> {LevelRequest(xp) : xp \in LevelInputs}]
  /\ tokens = {}
  /\ started = 0

\* const newLevel = calculateLevel(user.experiencePoints)
ResolveLevel(p) ==
  /\ proc[p].kind = "level" /\ proc[p].pc = "resolve"
  /\ proc' = [proc EXCEPT ![p].res = calculateLevel(proc[p].arg), ![p].pc = "idle"]
  /\ UNCHANGED <<db, tokens, started>>

NextLevel == \E p \in Procs : ResolveLevel(p)

SpecLevel == InitLevel /\ [][NextLevel]_vars

\* ------------------------------------------------- the two level tables
\* getXPForLevel(level) of the levels routes: the XP at which a level begins.
getXPForLevel(level) ==
  IF level <= 1 THEN 0
  ELSE IF level <= 2 THEN 100
  ELSE IF level <= 3 THEN 250
  ELSE IF level <= 4 THEN 500
  ELSE IF level <= 5 THEN 1000
  ELSE IF level <= 6 THEN 2000
  ELSE IF level <= 7 THEN 3500
  ELSE IF level <= 8 THEN 5000
  ELSE IF level <= 9 THEN 7000
  ELSE IF level <= 10 THEN 10000
  ELSE (level - 1) * 1000

\* The XP values and the levels the two tables are compared on.
TableXP == {0, 99, 100, 250, 499, 500, 1000, 2000, 3500, 5000, 7000, 9999, 10000,
            12000, 14999, 15000, 15500}
TableLevels == 1 .. 17

\* A threshold lookup in flight: the level asked for, then the XP returned by
\* getXPForLevel, then the level calculateLevel resolves that XP to.
ThresholdRequest(level) ==
  [kind |-> "threshold", pc |-> "lookup", user |-> 0, arg |-> level, badge |-> 0, level |-> 0,
   events |-> {}, board |-> <<>>, caller |-> 0, res |-> 0]

InitTable ==
  /\ users = InitStore.users
  /\ userBadges = InitStore.userBadges
  /\ userAchievements = InitStore.userAchievements
  /\ userActivities = InitStore.userActivities
  /\ experienceLog = InitStore.experienceLog
  /\ catalog = InitStore.catalog
  /\ proc \in {f \in [Procs -> {LevelRequest(xp) : xp \in TableXP}
                               \cup {ThresholdRequest(l) : l \in TableLevels}] :
                 f[1].kind = "level" /\ f[2].kind = "threshold"}
  /\ tokens = {}
  /\ started = 0

\* const xpForNextLevel = getXPForLevel(level + 1)
LookupThreshold(p) ==
  /\ proc[p].kind = "threshold" /\ proc[p].pc = "lookup"
  /\ proc' = [proc EXCEPT ![p].res = getXPForLevel(proc[p].arg), ![p].pc = "resolve"]
  /\ UNCHANGED <<db, tokens, started>>

\* calculateLevel applied to the XP the lookup returned.
ResolveThreshold(p) ==
  /\ proc[p].kind = "threshold" /\ proc[p].pc = "resolve"
  /\ proc' = [proc EXCEPT ![p].res = calculateLevel(proc[p].res), ![p].pc = "idle"]
  /\ UNCHANGED <<db, tokens, started>>

NextTable ==
  \/ \E p \in Procs : ResolveLevel(p)
  \/ \E p \in Procs : LookupThreshold(p)
  \/ \E p \in Procs : ResolveThreshold(p)

SpecTable == InitTable /\ [][NextTable]_vars

\* ------------------------------------------------- progress within a level
\* The value the response carries when the quotient of calculateLevelProgress
\* is 0 / 0.
NaN == -1

\* calculateLevelProgress(xp, level): the whole percents of the level's span
\* the user has covered, between 0 and 100; a quotient by zero is +Infinity,
\* -Infinity or NaN by the sign of the numerator.
calculateLevelProgress(xp, level) ==
  LET xpForCurrentLevel == getXPForLevel(level)
      xpForNextLevel == getXPForLevel(level + 1)
      xpInCurrentLevel == xp - xpForCurrentLevel
      xpNeededForNextLevel == xpForNextLevel - xpForCurrentLevel
      percent == (xpInCurrentLevel * 100) \div xpNeededForNextLevel
  IN IF xpNeededForNextLevel = 0
     THEN (IF xpInCurrentLevel = 0 THEN NaN ELSE IF xpInCurrentLevel > 0 THEN 100 ELSE 0)
     ELSE IF percent < 0 THEN 0 ELSE IF percent > 100 THEN 100 ELSE percent

\* calculateXPToNextLevel(xp, level)
calculateXPToNextLevel(xp, level) ==
  LET xpForNextLevel == getXPForLevel(level + 1)
  IN IF xpForNextLevel - xp > 0 THEN xpForNextLevel - xp ELSE 0

\* A row of the experience leaderboard to be mapped: a user's XP and the
\* currentLevel a level check resolved from that XP or from less.
ProgressRequest(xp, level) ==
  [kind |-> "progress", pc |-> "map", user |-> 0, arg |-> xp, badge |-> 0, level |-> level,
   events |-> {}, board |-> <<>>, caller |-> 0, res |-> 0]

ProgressInputs ==
  {ProgressRequest(xp, level) : xp \in TableXP, level \in TableLevels}

InitProgress ==
  /\ users = InitStore.users
  /\ userBadges = InitStore.userBadges
  /\ userAchievements = InitStore.userAchievements
  /\ userActivities = InitStore.userActivities
  /\ experienceLog = InitStore.experienceLog
  /\ catalog = InitStore.catalog
  /\ proc \in [Procs -> {r \in ProgressInputs : r.level <= calculateLevel(r.arg)}]
  /\ tokens = {}
  /\ started = 0

\* One entry of GET /levels/leaderboard/experience.
MapProgress(p) ==
  /\ proc[p].kind = "progress" /\ proc[p].pc = "map"
  /\ proc' = [proc EXCEPT
                ![p].res = [level_progress |-> calculateLevelProgress(proc[p].arg, proc[p].level),
                            xp_to_next_level |-> calculateXPToNextLevel(proc[p].arg, proc[p].level)],
                ![p].pc = "idle"]
  /\ UNCHANGED <<db, tokens, started>>

NextProgress == \E p \in Procs : MapProgress(p)

SpecProgress == InitProgress /\ [][NextProgress]_vars

\* ------------------------------------------- the resolver on the Level rows
\* prisma.level.findFirst({ where: { experienceRequired: { lte: xp } },
\* orderBy: { levelNumber: 'desc' } }) of Level.updateUserLevel and
\* Level.getLevelByExperience: the highest level number among the rows whose
\* threshold the XP reaches, NoLevel when there is none.
getLevelByExperience(levels, xp) ==
  LET reached == {l.levelNumber : l \in {r \in levels : r.experienceRequired <= xp}}
  IN IF reached = {} THEN NoLevel ELSE CHOOSE n \in reached : \A m \in reached : m <= n

CatalogLevelRequest(xp) ==
  [kind |-> "catalog-level", pc |-> "resolve", user |-> 0, arg |-> xp, badge |-> 0, level |-> 0,
   events |-> {}, board |-> <<>>, caller |-> 0, res |-> 0]

InitCatalogLevel ==
  /\ users = InitStore.users
  /\ userBadges = InitStore.userBadges
  /\ userAchievements = InitStore.userAchievements
  /\ userActivities = InitStore.userActivities
  /\ experienceLog = InitStore.experienceLog
  /\ catalog = InitStore.catalog
  /\ proc \in [Procs -> {CatalogLevelRequest(xp) : xp \in TableXP}]
  /\ tokens = {}
  /\ started = 0

ResolveCatalogLevel(p) ==
  /\ proc[p].kind = "catalog-level" /\ proc[p].pc = "resolve"
  /\ proc' = [proc EXCEPT ![p].res = getLevelByExperience(catalog.levels, proc[p].arg),
                          ![p].pc = "idle"]
  /\ UNCHANGED <<db, tokens, started>>

NextCatalogLevel == \E p \in Procs : ResolveCatalogLevel(p)

SpecCatalogLevel == InitCatalogLevel /\ [][NextCatalogLevel]_vars

\* ================================================================ claims
LogRows(u, type, id) ==
  Cardinality({i \in DOMAIN experienceLog[u] :
                 /\ experienceLog[u][i].activityType = type
                 /\ experienceLog[u][i].activityId = id})

\* Two completion requests for (u, a) passed the pre-transaction check; one
\* committed and the other met the unique key.
TwoRaced(u, a) ==
  \E p, q \in Procs :
    /\ p # q
    /\ proc[p].kind = "complete" /\ proc[p].pc = "idle"
    /\ proc[p].user = u /\ proc[p].arg = a /\ proc[p].res = "200 completed"
    /\ proc[q].kind = "complete" /\ proc[q].pc = "idle"
    /\ proc[q].user = u /\ proc[q].arg = a /\ proc[q].res = "200 alreadyCompleted"

C3_GrantRowsUnique ==
  /\ \A u \in Users, b \in BadgeIds : userBadges[<<u, b>>] <= 1
  /\ \A u \in Users, h \in AchievementIds : userAchievements[<<u, h>>] <= 1

\* Two award requests for one (user, badge) both passed the pre-transaction
\* check; one of them committed the row.
C3_Witness ==
  \E p, q \in Procs :
    /\ p # q
    /\ proc[p].kind = "award" /\ proc[q].kind = "award"
    /\ proc[p].user = proc[q].user /\ proc[p].arg = proc[q].arg
    /\ proc[p].res = "200 awarded" /\ proc[q].pc = "insert"
    /\ userBadges[<<proc[p].user, proc[p].arg>>] = 1

\* C4 (as stated): of two requests that award one badge to one user, one
\* grants it and the other does not end in a server error.
C4_AsStated ==
  \A p, q \in Procs :
    (/\ p # q
     /\ proc[p].kind = "award" /\ proc[q].kind = "award"
     /\ proc[p].user = proc[q].user /\ proc[p].arg = proc[q].arg
     /\ proc[p].pc = "idle" /\ proc[q].pc = "idle"
     /\ proc[p].res = "200 awarded")
      => proc[q].res # "500"

\* C5 (as stated): experiencePoints is the sum of the user's log rows.
C5_AsStated ==
  \A u \in Users : users[u].experiencePoints = SumChanges(experienceLog[u])

\* C6: totalBadges is the number of the user's UserBadge rows and
\* totalAchievements the number of the user's UserAchievement rows.
C6_CountersMatchRows ==
  \A u \in Users :
    /\ users[u].totalBadges = UserBadgeCount(Store, u)
    /\ users[u].totalAchievements = UserAchievementCount(Store, u)

\* A user holding an activity-bound badge, an achievement-bound badge and the
\* achievements that came with them.
C6_Witness ==
  \E u \in Users :
    /\ userBadges[<<u, 1>>] = 1 /\ userBadges[<<u, 2>>] = 1
    /\ users[u].totalBadges >= 2 /\ users[u].totalAchievements >= 2

\* C7 (as stated): currentLevel is calculateLevel of the current XP.
C7_AsStated ==
  \A u \in Users : users[u].currentLevel = calculateLevel(users[u].experiencePoints)

\* C8: no step lowers a user's experiencePoints, currentLevel, totalBadges or
\* totalAchievements.
C8_Monotone ==
  [][\A u \in Users :
       /\ users'[u].experiencePoints >= users[u].experiencePoints
       /\ users'[u].currentLevel >= users[u].currentLevel
       /\ users'[u].totalBadges >= users[u].totalBadges
       /\ users'[u].totalAchievements >= users[u].totalAchievements]_vars

C8_Witness ==
  \E u \in Users :
    /\ users[u].experiencePoints >= 100 /\ users[u].currentLevel >= 2
    /\ users[u].totalBadges >= 1 /\ users[u].totalAchievements >= 1

\* C9: a request whose transaction fails (a statement error, a lock cycle the
\* store breaks, a unique key met on insert) commits none of its changes:
\* the step that ends it leaves every user row, grant row, completion row
\* and log row as it was.
C9_FailedTransactionCommitsNothing ==
  [][\A p \in Procs :
       (/\ proc[p].pc \in {"insert", "body"}
        /\ proc'[p].pc = "idle"
        /\ proc'[p].res \in {"500", "200 alreadyCompleted"})
         => UNCHANGED db]_vars

\* A completion of activity 1 (75 XP, a bound badge) whose transaction
\* failed, with no row of it in the store.
C9_Witness ==
  \E p \in Procs :
    /\ proc[p].kind = "complete" /\ proc[p].arg = 1 /\ proc[p].res = "500"
    /\ userActivities[<<proc[p].user, 1>>] = 0
    /\ userBadges[<<proc[p].user, 1>>] = 0

\* The store and the issued tokens after one request runs from start to
\* answer with no other request in flight.
RunAlone(S, r) ==
  LET u == r.user
      D == S.store
      Done(kind, D1) == [store |-> TxResult(kind, D1, u, r.arg),
                         tokens |-> IF kind \in {"register", "login"}
                                    THEN S.tokens \cup {u} ELSE S.tokens]
  IN CASE r.kind = "complete" ->
            IF ~Activity[r.arg].isActive \/ ~D.users[u].exists \/ D.userActivities[<<u, r.arg>>] > 0
            THEN S ELSE Done("complete", D)
       [] r.kind = "award" ->
            IF \/ r.arg \notin D.catalog.badges \/ ~Badge[r.arg].isActive
               \/ ~D.users[u].exists \/ D.userBadges[<<u, r.arg>>] > 0
            THEN S ELSE Done("award", D)
       [] r.kind = "register" ->
            IF D.users[u].exists THEN S
            ELSE Done("register", [D EXCEPT !.users[u] = NewUser(RegisterInputs[r.arg])])
       [] r.kind = "login" ->
            IF ~D.users[u].exists THEN S ELSE Done("login", D)
       [] r.kind = "profile" ->
            IF u \notin S.tokens \/ ~D.users[u].exists THEN S
            ELSE LET D1 == [D EXCEPT !.users[u].profile = @ \cup ProfileInputs[r.arg]]
                 IN IF D1.users[u].profile = ProfileFields
                    THEN Done("profile", D1) ELSE [S EXCEPT !.store = D1]

\* C10 (as stated): when the first two requests of a behaviour, one per
\* handler slot and both for one user, have been answered, the store is the
\* one that running them one after the other, in one of the two orders,
\* leaves.
C10_AsStated ==
  (/\ started = 2
   /\ \A p \in Procs : proc[p].pc = "idle" /\ proc[p].kind # "none"
   /\ proc[1].user = proc[2].user)
    => LET S0 == [store |-> InitStore, tokens |-> {}]
       IN Store \in {RunAlone(RunAlone(S0, proc[1]), proc[2]).store,
                     RunAlone(RunAlone(S0, proc[2]), proc[1]).store}

\* The levels of the ten XP values: the highest level whose threshold is at
\* most the XP, and floor(xp / 1000) + 1 from 15000 XP on.
C11_Levels ==
  [xp \in LevelInputs |->
     CASE xp \in {0, 99} -> 1
       [] xp \in {100, 249} -> 2
       [] xp = 250 -> 3
       [] xp = 999 -> 4
       [] xp = 1000 -> 5
       [] xp = 9999 -> 9
       [] xp = 10000 -> 10
       [] xp = 15500 -> 16]

\* C11 (as amended): for the XP values 0, 99, 100, 249, 250, 999, 1000, 9999,
\* 10000, 15500 calculateLevel returns 1, 1, 2, 2, 3, 4, 5, 9, 10, 16.
C11_LevelValues ==
  \A p \in Procs :
    (proc[p].kind = "level" /\ proc[p].pc = "idle") => proc[p].res = C11_Levels[proc[p].arg]

\* Both resolutions returned: 1000 XP is level 5 and 15500 XP is level 16.
C11_Witness ==
  /\ proc[1].kind = "level" /\ proc[1].pc = "idle" /\ proc[1].arg = 1000 /\ proc[1].res = 5
  /\ proc[2].kind = "level" /\ proc[2].pc = "idle" /\ proc[2].arg = 15500 /\ proc[2].res = 16

\* C11 (as stated): the ten values resolve to 1, 1, 2, 2, 3, 4, 4, 9, 10, 15.
C11_AsStated ==
  \A p \in Procs :
    (proc[p].kind = "level" /\ proc[p].pc = "idle") =>
      proc[p].res = (CASE proc[p].arg = 1000 -> 4
                       [] proc[p].arg = 15500 -> 15
                       [] OTHER -> C11_Levels[proc[p].arg])

\* C12 (as stated): when the transaction a trigger commits takes the user's
\* XP across a level threshold and the level reached has a bound badge the
\* user does not own, the commit leaves exactly one UserBadge row of that
\* badge and a totalBadges that grew by at least 1.
C12_AsStated ==
  [][\A p \in Procs :
       LET u == proc[p].user
           reached == calculateLevel(users'[u].experiencePoints)
           lb == LevelBadgeRewardId(reached)
       IN (/\ TxCommit(p)
           /\ reached > calculateLevel(users[u].experiencePoints)
           /\ lb # NoBadge
           /\ userBadges[<<u, lb>>] = 0)
            => /\ userBadges'[<<u, lb>>] = 1
               /\ users'[u].totalBadges >= users[u].totalBadges + 1]_vars

\* C13 (as stated), for the badges a trigger grants as a statement of its own
\* (the manual award, the registration badge, the profile-completion badge):
\* when the badge's experienceReward takes the user's XP to or past a level
\* threshold, the currentLevel the trigger commits is at least the level of
\* the XP the badge left.
C13_AsStated ==
  [][\A p \in Procs :
       LET u == proc[p].user
           st == TxStages(proc[p].kind, Store, u, proc[p].arg)
       IN (/\ TxCommit(p)
           /\ proc[p].kind \in {"award", "register", "profile"}
           /\ st[2].userBadges # st[1].userBadges \/ proc[p].kind = "award"
           /\ calculateLevel(st[2].users[u].experiencePoints)
                > calculateLevel(st[1].users[u].experiencePoints))
            => users'[u].currentLevel >= calculateLevel(st[2].users[u].experiencePoints)]_vars

\* Request q was a profile update of u that set the last missing field
\* (avatarUrl, with firstName and lastName set since registration) and
\* committed its reward transaction.
ProfileRewarded(q, u) ==
  /\ proc[q].kind = "profile" /\ proc[q].pc = "idle"
  /\ proc[q].user = u /\ proc[q].arg = 2 /\ proc[q].res = "200"
  /\ {"firstName", "lastName"} \subseteq users[u].profile

\* C14 (as stated): a profile update of a user whose profile-completion
\* reward was granted by an earlier update grants no second reward: the XP
\* its transaction adds is that of the achievement rows and badge rows it
\* creates, and it creates no second 'Profile Master' row.
C14_AsStated ==
  [][\A p, q \in Procs :
       LET u == proc[p].user
           newAch == {h \in AchievementIds : userAchievements'[<<u, h>>] > userAchievements[<<u, h>>]}
           newBadges == {b \in BadgeIds : userBadges'[<<u, b>>] > userBadges[<<u, b>>]}
       IN (/\ p # q
           /\ TxCommit(p)
           /\ proc[p].kind = "profile"
           /\ ProfileRewarded(q, u))
            => /\ users'[u].experiencePoints - users[u].experiencePoints =
                    SumOver([h \in AchievementIds |-> Achievement[h].experienceReward], newAch)
                    + SumOver([b \in BadgeIds |-> Badge[b].experienceReward], newBadges)
               /\ userBadges'[<<u, BadgeFindByName(Store, "Profile Master")>>] <= 1]_vars

\* C15 (as stated): once a registration has committed, the registered user
\* holds every active achievement whose criteriaType is 'registration'.
C15_AsStated ==
  \A p \in Procs :
    (proc[p].kind = "register" /\ proc[p].pc = "idle" /\ proc[p].res = "201")
      => \A h \in AchievementIds :
           (Achievement[h].isActive /\ Achievement[h].criteriaType = "registration")
             => userAchievements[<<proc[p].user, h>>] >= 1

\* C16 (as stated): when a trigger commits, the user owns every active badge
\* whose criteriaType is experience, badges or activities and whose
\* criteriaValue is at most the user's XP, number of UserBadge rows or number
\* of UserActivity rows.
C16_AsStated ==
  [][\A p \in Procs :
       LET u == proc[p].user
           aggregate(b) ==
             CASE Badge[b].criteriaType = "experience" -> users'[u].experiencePoints
               [] Badge[b].criteriaType = "badges" ->
                    SumOver([c \in BadgeIds |-> userBadges'[<<u, c>>]], BadgeIds)
               [] Badge[b].criteriaType = "activities" ->
                    SumOver([a \in ActivityIds |-> userActivities'[<<u, a>>]], ActivityIds)
       IN TxCommit(p)
            => \A b \in BadgeIds :
                 (/\ Badge[b].isActive
                  /\ Badge[b].criteriaType \in {"experience", "badges", "activities"}
                  /\ userBadges[<<u, b>>] = 0
                  /\ Badge[b].criteriaValue <= aggregate(b))
                   => userBadges'[<<u, b>>] >= 1]_vars

\* C17: a step of a request for user A leaves every other user's row, grant
\* rows, completion rows and log rows as they were; and a request for A
\* whose transaction ends in a failure (a 500, or the unique key met on
\* insert) was stopped by a committed row of A or by another request for A
\* in flight, never by a request for a different user.
C17_OtherUsersUntouched ==
  [][\A p \in Procs :
       proc'[p] # proc[p] =>
         LET A == proc'[p].user
         IN /\ \A B \in Users \ {A} :
                 /\ users'[B] = users[B]
                 /\ experienceLog'[B] = experienceLog[B]
                 /\ \A b \in BadgeIds : userBadges'[<<B, b>>] = userBadges[<<B, b>>]
                 /\ \A h \in AchievementIds :
                      userAchievements'[<<B, h>>] = userAchievements[<<B, h>>]
                 /\ \A a \in ActivityIds : userActivities'[<<B, a>>] = userActivities[<<B, a>>]
            /\ (/\ proc[p].pc \in {"insert", "body"}
                /\ proc'[p].res \in {"500", "200 alreadyCompleted"})
                 => \/ proc[p].kind = "complete" /\ userActivities[<<A, proc[p].arg>>] > 0
                    \/ proc[p].kind = "award" /\ userBadges[<<A, proc[p].arg>>] > 0
                    \/ \E q \in Procs \ {p} : proc[q].pc # "idle" /\ proc[q].user = A]_vars

\* A completion by user 1 of the activity bound to badge 1 and an award of
\* badge 1 to user 2 are in their transactions at once, each past its first
\* insert.
C17_Witness ==
  /\ proc[1].kind = "complete" /\ proc[1].pc = "body" /\ proc[1].user = 1 /\ proc[1].arg = 1
  /\ proc[2].kind = "award" /\ proc[2].pc = "body" /\ proc[2].user = 2 /\ proc[2].arg = 1

\* The XP a trigger of the given kind adds by itself.
PrimaryXP(kind, arg) ==
  CASE kind = "complete" -> Activity[arg].experienceReward
    [] kind = "register" -> RegistrationXP
    [] kind = "login" -> LoginXP
    [] kind = "profile" -> ProfileCompletionXP
    [] OTHER -> 0

\* C18 (as stated): a trigger that commits a level-up to level L has written
\* exactly one level_up log row, with experienceChange L * 10, and has
\* added L * 10 to experiencePoints on top of the trigger's own XP and the
\* rewards of the badges and achievements it granted (the badge bound to a
\* completed activity carries no XP).
C18_AsStated ==
  [][\A p \in Procs :
       LET u == proc[p].user
           L == users'[u].currentLevel
           added == SubSeq(experienceLog'[u], Len(experienceLog[u]) + 1, Len(experienceLog'[u]))
           levelUps == {i \in DOMAIN added : added[i].activityType = "level_up"}
           newAch == {h \in AchievementIds : userAchievements'[<<u, h>>] > userAchievements[<<u, h>>]}
           newBadges == {b \in BadgeIds : userBadges'[<<u, b>>] > userBadges[<<u, b>>]}
           paidBadges == IF proc[p].kind = "complete"
                         THEN newBadges \ {Activity[proc[p].arg].badgeRewardId}
                         ELSE newBadges
       IN (TxCommit(p) /\ L > users[u].currentLevel)
            => /\ Cardinality(levelUps) = 1
               /\ \A i \in levelUps : added[i].experienceChange = L * 10
               /\ users'[u].experiencePoints - users[u].experiencePoints =
                    PrimaryXP(proc[p].kind, proc[p].arg)
                    + SumOver([b \in BadgeIds |-> Badge[b].experienceReward], paidBadges)
                    + SumOver([h \in AchievementIds |-> Achievement[h].experienceReward], newAch)
                    + L * 10]_vars

\* C19 (as stated): counter consistency holds after catalog deletions too:
\* totalBadges is the number of the user's UserBadge rows and
\* totalAchievements the number of the user's UserAchievement rows.
C19_AsStated ==
  (catalog # InitStore.catalog) =>
    \A u \in Users :
      /\ users[u].totalBadges = UserBadgeCount(Store, u)
      /\ users[u].totalAchievements = UserAchievementCount(Store, u)

\* C20: a badge award that names a missing or inactive badge or a missing
\* user, and an activity completion that names an inactive activity or a
\* missing user, is answered 404 in the step that starts it and leaves the
\* store (user rows, grant rows, completion rows, log rows, catalog) as it
\* was.
C20_NotFoundChangesNothing ==
  [][\A p \in Procs :
       LET u == proc'[p].user
           x == proc'[p].arg
           missing ==
             \/ ~users[u].exists
             \/ proc'[p].kind = "award" /\ (x \notin catalog.badges \/ ~Badge[x].isActive)
             \/ proc'[p].kind = "complete" /\ ~Activity[x].isActive
       IN (/\ proc[p].pc = "idle" /\ proc'[p] # proc[p]
           /\ proc'[p].kind \in {"award", "complete"}
           /\ missing)
            => proc'[p].res = "404" /\ proc'[p].pc = "idle" /\ UNCHANGED db]_vars

\* An award of a deleted badge to an existing user and a completion of an
\* inactive activity by an existing user were both answered 404.
C20_Witness ==
  \E p, q \in Procs :
    /\ proc[p].kind = "award" /\ proc[p].res = "404"
    /\ proc[p].arg \notin catalog.badges /\ users[proc[p].user].exists
    /\ proc[q].kind = "complete" /\ proc[q].res = "404"
    /\ ~Activity[proc[q].arg].isActive /\ users[proc[q].user].exists

Commits(p) ==
  /\ proc[p].pc = "body" /\ proc'[p].pc = "idle"
  /\ proc'[p].res = SuccessResponse(proc[p].kind)

\* The store p's transaction sees when its achievement pass starts.
PassStart(p) ==
  LET st == TxStages(proc[p].kind, Store, proc[p].user, proc[p].arg)
  IN st[Len(st) - 1]

\* C22: an achievement row a trigger commits is the first one of an existing,
\* active achievement whose criterion held on the user's XP, number of
\* UserBadge rows or number of UserActivity rows when the pass started; an
\* achievement of any other criteriaType ('custom', 'registration') gets no
\* row.
C22_UnlockIsSound ==
  [][\A p \in Procs :
       Commits(p) =>
         LET u == proc[p].user
             pre == PassStart(p)
         IN \A h \in AchievementIds :
              userAchievements'[<<u, h>>] > userAchievements[<<u, h>>]
                => /\ h \in catalog.achievements /\ Achievement[h].isActive
                   /\ userAchievements[<<u, h>>] = 0 /\ userAchievements'[<<u, h>>] = 1
                   /\ \/ /\ Achievement[h].criteriaType = "experience"
                         /\ pre.users[u].experiencePoints >= Achievement[h].criteriaValue
                      \/ /\ Achievement[h].criteriaType = "badges"
                         /\ UserBadgeCount(pre, u) >= Achievement[h].criteriaValue
                      \/ /\ Achievement[h].criteriaType = "activities"
                         /\ UserActivityCount(pre, u) >= Achievement[h].criteriaValue]_vars

\* A user holds an 'activities', a 'badges' and an 'experience' achievement,
\* and neither the inactive one whose criterion holds nor the 'custom' one.
C22_Witness ==
  \E u \in Users :
    /\ userAchievements[<<u, 1>>] = 1 /\ userAchievements[<<u, 2>>] = 1
    /\ userAchievements[<<u, 4>>] = 1
    /\ userAchievements[<<u, 5>>] = 0 /\ userAchievements[<<u, 6>>] = 0

\* C23: when a trigger commits, every active 'badges' achievement the user
\* did not hold and whose criteriaValue is at most the number of UserBadge
\* rows the user had before the trigger plus the level-bound and
\* activity-bound badges the trigger granted is unlocked.
C23_EarlierBadgesCount ==
  [][\A p \in Procs :
       Commits(p) =>
         LET u == proc[p].user
             raised == users'[u].currentLevel > users[u].currentLevel
             early == {b \in BadgeIds :
                         /\ userBadges'[<<u, b>>] > userBadges[<<u, b>>]
                         /\ \/ raised /\ b = LevelBadgeRewardId(users'[u].currentLevel)
                            \/ proc[p].kind = "complete" /\ b = proc[p].badge}
         IN \A h \in AchievementIds :
              (/\ h \in catalog.achievements /\ Achievement[h].isActive
               /\ Achievement[h].criteriaType = "badges"
               /\ userAchievements[<<u, h>>] = 0
               /\ early # {}
               /\ UserBadgeCount(Store, u) + Cardinality(early) >= Achievement[h].criteriaValue)
                => userAchievements'[<<u, h>>] = 1]_vars

\* User 1 completed activities 1 and 2 and nothing else: the second
\* completion granted the level-2 badge and its activity's badge and, with
\* them counted, unlocked the achievement for two badges.
C23_Witness ==
  /\ started = 2
  /\ \A p \in Procs : proc[p].kind = "complete" /\ proc[p].user = 1
                      /\ proc[p].res = "200 completed"
  /\ {proc[1].arg, proc[2].arg} = {1, 2}
  /\ userBadges[<<1, 3>>] = 1 /\ userAchievements[<<1, 2>>] = 1

\* The criterion of an 'experience', 'badges' or 'activities' achievement on
\* the committed rows of a user.
CriterionMet(u, h) ==
  LET ach == Achievement[h]
  IN \/ ach.criteriaType = "experience" /\ users[u].experiencePoints >= ach.criteriaValue
     \/ ach.criteriaType = "badges" /\ UserBadgeCount(Store, u) >= ach.criteriaValue
     \/ ach.criteriaType = "activities" /\ UserActivityCount(Store, u) >= ach.criteriaValue

\* C24: an active achievement whose criterion the user's committed rows
\* already satisfy, and which the user does not hold (the state a pass leaves
\* behind when its own rewards satisfied the criterion), is unlocked by the
\* next trigger of that user that commits.
C24_NextTriggerCatchesUp ==
  [][\A p \in Procs :
       Commits(p) =>
         LET u == proc[p].user
         IN \A h \in AchievementIds :
              (/\ h \in catalog.achievements /\ Achievement[h].isActive
               /\ userAchievements[<<u, h>>] = 0
               /\ CriterionMet(u, h))
                => userAchievements'[<<u, h>>] = 1]_vars

\* User 1 completed activities 1, 2 and 3 and ended on level 3 with 290 XP:
\* in each order that ends so, the second completion's pass began below 200 XP,
\* passed 200 XP by its own rewards without unlocking the 200-XP achievement,
\* and the third completion unlocked it.
C24_Witness ==
  /\ \A a \in {1, 2, 3} : userActivities[<<1, a>>] = 1
  /\ users[1].currentLevel = 3 /\ users[1].experiencePoints = 290
  /\ userAchievements[<<1, 4>>] = 1

C26_LogAppendOnly ==
  [][\A u \in Users :
       /\ Len(experienceLog'[u]) >= Len(experienceLog[u])
       /\ SubSeq(experienceLog'[u], 1, Len(experienceLog[u])) = experienceLog[u]]_vars

\* Three triggers of user 1 have each added rows to the log, the last one
\* after a level-up had already been logged.
C26_Witness ==
  /\ started = 3
  /\ \A p \in Procs : proc[p].pc = "idle"
  /\ Len(experienceLog[1]) >= 4
  /\ \E i \in DOMAIN experienceLog[1] :
       /\ experienceLog[1][i].activityType = "level_up"
       /\ i < Len(experienceLog[1])
       /\ experienceLog[1][Len(experienceLog[1])].activityType = "activity_completion"

\* C27 (as stated): every row of the experience log has previousLevel and
\* newLevel set, and on a level_up row newLevel is above previousLevel.
C27_AsStated ==
  \A u \in Users :
    \A i \in DOMAIN experienceLog[u] :
      LET row == experienceLog[u][i]
      IN /\ row.previousLevel # NoLevel
         /\ row.newLevel # NoLevel
         /\ row.activityType = "level_up" => row.newLevel > row.previousLevel

\* C28 (as stated): calculateLevel(xp) is the highest level L with
\* getXPForLevel(L) <= xp, and calculateLevel(getXPForLevel(L)) = L for every
\* level L >= 1.
C28_AsStated ==
  \A p \in Procs :
    /\ (proc[p].kind = "level" /\ proc[p].pc = "idle") =>
         /\ getXPForLevel(proc[p].res) <= proc[p].arg
         /\ \A l \in TableLevels : getXPForLevel(l) <= proc[p].arg => l <= proc[p].res
    /\ (proc[p].kind = "threshold" /\ proc[p].pc = "idle") => proc[p].res = proc[p].arg

\* The fixed badge of a trigger kind, by its name in the catalog.
FixedBadge(kind) ==
  CHOOSE b \in BadgeIds :
    Badge[b].name = (IF kind = "register" THEN "First Steps" ELSE "Profile Master")

\* C29 (as stated): a registration or a profile completion that commits
\* emits badge-awarded for its fixed badge ('First Steps', 'Profile Master')
\* exactly when its transaction granted that badge to the user.
C29_AsStated ==
  [][\A p \in Procs :
       (Commits(p) /\ proc[p].kind \in {"register", "profile"}) =>
         LET u == proc[p].user
             b == FixedBadge(proc[p].kind)
         IN (<<"badge-awarded", b>> \in proc'[p].events)
              <=> (userBadges'[<<u, b>>] > userBadges[<<u, b>>])]_vars

\* C30 (as stated): a login that commits emits achievement-unlocked only for
\* achievements its transaction unlocked, and emits level-up exactly when its
\* transaction raised the user's level.
C30_AsStated ==
  [][\A p \in Procs :
       (Commits(p) /\ proc[p].kind = "login") =>
         LET u == proc[p].user
         IN /\ \A h \in AchievementIds :
                 <<"achievement-unlocked", h>> \in proc'[p].events
                   => userAchievements'[<<u, h>>] > userAchievements[<<u, h>>]
            /\ (\E e \in proc'[p].events : e[1] = "level-up")
                 <=> users'[u].currentLevel > users[u].currentLevel]_vars

\* C31 (as stated): a leaderboard response lists its entries by
\* non-increasing activities_completed, and no user left out of it has
\* completed more activities than a user listed in it.
C31_AsStated ==
  [][\A p \in Procs :
       (proc'[p].kind = "leaderboard" /\ proc'[p] # proc[p]) =>
         LET board == proc'[p].board
             listed == {board[i].id : i \in DOMAIN board}
         IN /\ \A i, j \in DOMAIN board :
                 i < j => board[i].activities_completed >= board[j].activities_completed
            /\ \A u \in Users \ listed :
                 users[u].exists =>
                   \A i \in DOMAIN board :
                     UserActivityCount(Store, u) <= board[i].activities_completed]_vars

Skipped(u, l) ==
  /\ users[u].currentLevel > l
  /\ \A i \in DOMAIN experienceLog[u] :
       ~(experienceLog[u][i].activityType = "level_up" /\ experienceLog[u][i].activityId = l)

\* The log rows of the user that the step appends.
NewRows(u, type) ==
  {i \in (Len(experienceLog[u]) + 1)..Len(experienceLog'[u]) :
     experienceLog'[u][i].activityType = type}

\* C33 (as stated): once a trigger raised a user over a level, neither that
\* trigger nor any later one grants the user the badge bound to the level.
C33_AsStated ==
  [][\A u \in Users, l \in 2..3 :
       (Skipped(u, l)' /\ LevelBadgeRewardId(l) # NoBadge) =>
         userBadges'[<<u, LevelBadgeRewardId(l)>>] <= userBadges[<<u, LevelBadgeRewardId(l)>>]]_vars

\* C33 (amended): a trigger that raises a user by more than one level writes
\* one level_up row, for the level resolved, and no level_badge_award row
\* for any other level's badge; and the badge of a level the user skipped is
\* granted, by that trigger or a later one, only by a manual award of it.
C33_SkippedBadgeOnlyByAward ==
  [][\A u \in Users :
       /\ users'[u].currentLevel > users[u].currentLevel + 1 =>
            /\ Cardinality(NewRows(u, "level_up")) = 1
            /\ \A i \in NewRows(u, "level_up") :
                 experienceLog'[u][i].activityId = users'[u].currentLevel
            /\ \A i \in NewRows(u, "level_badge_award") :
                 experienceLog'[u][i].activityId = LevelBadgeRewardId(users'[u].currentLevel)
       /\ \A l \in 2..3 :
            (/\ Skipped(u, l)' /\ LevelBadgeRewardId(l) # NoBadge
             /\ userBadges'[<<u, LevelBadgeRewardId(l)>>] > userBadges[<<u, LevelBadgeRewardId(l)>>]) =>
               /\ NewRows(u, "level_badge_award") = {}
               /\ \E p \in Procs :
                    /\ Commits(p) /\ proc[p].kind = "award"
                    /\ proc[p].user = u /\ proc[p].arg = LevelBadgeRewardId(l)]_vars

\* A completion raised user 1 from level 1 to level 3 with a single level_up
\* row; the badge of level 2 was not granted then, and the admin awarded it
\* afterwards.
C33_Witness ==
  /\ users[1].currentLevel = 3 /\ Skipped(1, 2)
  /\ LogRows(1, "level_up", 3) = 1
  /\ LogRows(1, "level_badge_award", LevelBadgeRewardId(2)) = 0
  /\ userBadges[<<1, LevelBadgeRewardId(2)>>] = 1
  /\ \E p \in Procs : proc[p].kind = "award" /\ proc[p].arg = LevelBadgeRewardId(2)
                      /\ proc[p].res = SuccessResponse("award")

\* C34 (as stated): no user holds a UserBadge row of a badge whose isActive
\* flag is false, whichever trigger ran.
C34_AsStated ==
  \A u \in Users, b \in BadgeIds : ~Badge[b].isActive => userBadges[<<u, b>>] = 0

UserState(u) ==
  <<users[u], [b \in BadgeIds |-> userBadges[<<u, b>>]],
    [h \in AchievementIds |-> userAchievements[<<u, h>>]],
    [a \in ActivityIds |-> userActivities[<<u, a>>]], experienceLog[u]>>

\* C36 (as stated): the commit of a completion request leaves the XP, level,
\* counters, grant rows, completion rows and log of every user other than
\* the authenticated caller as they were.
C36_AsStated ==
  [][\A p \in Procs :
       (proc[p].kind = "complete" /\ proc[p].caller # NoCaller /\ Commits(p)) =>
         \A u \in Users \ {proc[p].caller} : UserState(u)' = UserState(u)]_vars

\* C37: a trigger resolves the level at most once, on the XP the user has
\* after the trigger's own reward (for a registration, with the reward of the
\* First Steps badge it grants): the level it commits is that level when it
\* is higher than the user's and the user's level otherwise, whatever XP the
\* level-bound badge and the achievements add afterwards; login and profile
\* commit no level; and a trigger writes at most one level_up row and at
\* most one row per achievement.
C37_CascadeRunsOnce ==
  [][\A p \in Procs :
       Commits(p) =>
         LET u == proc[p].user
             seen == users[u].experiencePoints +
                       (CASE proc[p].kind = "complete" -> Activity[proc[p].arg].experienceReward
                          [] proc[p].kind = "award" -> Badge[proc[p].arg].experienceReward
                          [] proc[p].kind = "register" ->
                               GrantNamedBadge(Store, u, "First Steps").users[u].experiencePoints
                               - users[u].experiencePoints + RegistrationXP
                          [] OTHER -> 0)
             resolved == IF proc[p].kind \in {"complete", "award", "register"}
                         THEN calculateLevel(seen) ELSE users[u].currentLevel
         IN /\ users'[u].currentLevel =
                 (IF resolved > users[u].currentLevel THEN resolved ELSE users[u].currentLevel)
            /\ Cardinality(NewRows(u, "level_up")) <= 1
            /\ \A h \in AchievementIds :
                 userAchievements'[<<u, h>>] <= userAchievements[<<u, h>>] + 1]_vars

\* A trigger raised a user to a level and granted the badge of level 2; with
\* the XP of that badge and of the achievements unlocked after the level
\* check the user has the XP of a higher level, and stays at the level
\* resolved.
C37_Witness ==
  \E u \in Users :
    /\ users[u].currentLevel >= 2
    /\ LogRows(u, "level_up", users[u].currentLevel) = 1
    /\ LogRows(u, "level_badge_award", LevelBadgeRewardId(2)) = 1
    /\ calculateLevel(users[u].experiencePoints) > users[u].currentLevel

\* C38 (as stated): for the level of every entry mapped, the next level
\* begins at more XP than the level itself, so the entry's level_progress is
\* a number from 0 to 100, and its xp_to_next_level is positive when the
\* user's XP is below the XP at which the next level begins.
C38_AsStated ==
  \A p \in Procs :
    (proc[p].kind = "progress" /\ proc[p].pc = "idle") =>
      /\ getXPForLevel(proc[p].level + 1) > getXPForLevel(proc[p].level)
      /\ proc[p].res.level_progress \in 0..100
      /\ proc[p].arg < getXPForLevel(proc[p].level + 1) => proc[p].res.xp_to_next_level > 0

\* C39 (as stated): on the seeded Level rows, the level number the resolver
\* of the Level model chooses for an XP value is calculateLevel of that value.
C39_AsStated ==
  \A p \in Procs :
    (proc[p].kind = "catalog-level" /\ proc[p].pc = "idle") =>
      proc[p].res = calculateLevel(proc[p].arg)

====
